---- MODULE Spec2Model ----
(***************************************************************************)
(* The experimental generational mark-compact collector of the Motoko RTS  *)
(* (rts/motoko-rts/src/gc/experimental.rs) over a word-addressed memory.   *)
(* Memory is a function from byte addresses (multiples of WORD_SIZE) to    *)
(* 32-bit words; tags, skewed pointers and threaded field addresses are    *)
(* all plain words, told apart only by the bit tests the code performs.    *)
(***************************************************************************)
EXTENDS Integers, Sequences, FiniteSets, TLC

\* ------------------------------------------------------------------ bounds
\* Number of fields and root slots that hold a pointer before the cycle.
MaxPtrs == 3
\* Number of remembered-set entries that no longer hold a young pointer.
MaxStale == 1
\* Number of calls of decide_strategy in a behaviour.
MaxRuns == 24
\* Number of slices of the longest array.
MaxSlices == 3

\* ------------------------------------------------------- types.rs constants
WORD_SIZE == 4

TAG_OBJECT == 1
TAG_OBJ_IND == 2
TAG_ARRAY == 3
TAG_BITS64 == 5
TAG_MUTBOX == 6
TAG_CLOSURE == 7
TAG_SOME == 8
TAG_VARIANT == 9
TAG_BLOB == 10
TAG_FWD_PTR == 11
TAG_BITS32 == 12
TAG_BIGINT == 13
TAG_CONCAT == 14

\* The tag constants of types.rs, TAG_OBJECT up to the highest object tag.
ObjectTags ==
  {TAG_OBJECT, TAG_OBJ_IND, TAG_ARRAY, TAG_BITS64, TAG_MUTBOX, TAG_CLOSURE,
   TAG_SOME, TAG_VARIANT, TAG_BLOB, TAG_FWD_PTR, TAG_BITS32, TAG_BIGINT,
   TAG_CONCAT}

\* Tags used by experimental.rs that types.rs does not define.
TAG_ONE_WORD_FILLER == 29
TAG_FREE_SPACE == 31
TAG_ARRAY_SLICE_MIN == 32

\* Words are 32 bits wide; the model represents a word by its residue of
\* least magnitude, so wrapping_add(1) and wrapping_sub(1) are +1 and -1
\* (skew(0) is -1, the residue of 0xFFFFFFFF, and unskew(-1) is 0).

\* SkewedPtr::unskew: self.0.wrapping_add(1)
unskew(v) == v + 1

\* skew: ptr.wrapping_sub(1)
skew(ptr) == ptr - 1

\* Value::is_ptr: a stored word is a pointer iff it is skewed (low bit 1).
is_ptr(v) == v % 2 = 1

get_ptr(v) == unskew(v)

get_raw(v) == v

from_ptr(ptr) == skew(ptr)

\* ----------------------------------------------------------- memory layout
\* The static region [0, heap_base): the first words are runtime data the
\* model does not track, then one static root MutBox and the continuation
\* table slot.  heap_base is a multiple of 32 (experimental.rs:150).
static_root_box == 4 * WORD_SIZE
continuation_table_ptr_loc == 7 * WORD_SIZE
heap_base == 8 * WORD_SIZE

\* The root array: pointers to the static MutBoxes.
static_roots == <<static_root_box>>

\* Obj { tag, forward }, MutBox { header, field }, Array { header, len, .. }
TagAddr(obj) == obj
ForwardAddr(obj) == obj + WORD_SIZE
MutBoxField(obj) == obj + 2 * WORD_SIZE
ArrayLenAddr(obj) == obj + 2 * WORD_SIZE
ArrayPayload(obj, i) == obj + 3 * WORD_SIZE + i * WORD_SIZE

\* Obj { tag } of a one-word filler, FreeSpace { tag, words }
FreeSpaceWords(obj) == obj + WORD_SIZE

\* Words of a heap object of the given tag: a MutBox, a one-word filler, a
\* free-space block of no further words, an array of one element.
KindWords(tag) ==
  CASE tag = TAG_MUTBOX -> 3
    [] tag = TAG_ONE_WORD_FILLER -> 1
    [] tag = TAG_FREE_SPACE -> 2
    [] OTHER -> 4

\* object_size in words; -1 stands for rts_trap_with("invalid object tag").
object_size(m, p) ==
  LET tag == m[p] IN
  CASE tag = TAG_ARRAY -> 3 + m[ArrayLenAddr(p)]
    [] tag = TAG_MUTBOX -> 3
    [] tag = TAG_BITS64 -> 4
    [] tag = TAG_ONE_WORD_FILLER -> 1
    [] tag = TAG_FREE_SPACE -> 2 + m[FreeSpaceWords(p)]
    [] OTHER -> -1

\* The field slots visit_pointer_fields looks at, by tag, in visiting order;
\* <<-1>> stands for its trap on a tag it does not know.
FieldSlots(m, obj, tag) ==
  CASE tag = TAG_MUTBOX -> <<MutBoxField(obj)>>
    [] tag = TAG_ARRAY ->
         [i \in 1..m[ArrayLenAddr(obj)] |-> ArrayPayload(obj, i - 1)]
    [] tag = TAG_BITS64 -> <<>>
    [] OTHER -> <<-1>>

KnownShape(tag) == tag \in {TAG_MUTBOX, TAG_ARRAY, TAG_BITS64}

\* pointer_to_dynamic_heap(field_addr, heap_base)
pointer_to_dynamic_heap(m, field_addr) ==
  is_ptr(m[field_addr]) /\ get_ptr(m[field_addr]) >= heap_base

\* ------------------------------------------------------------------- state
VARIABLES
  mem,            \* tracked memory: word address |-> word
  hp,             \* ic::HP
  last_hp,        \* ic::LAST_HP
  remembered,     \* REMEMBERED_SET: field addresses in insertion order
  pc,             \* position of the collector
  strategy,       \* ExperimentalGC.strategy
  limits,         \* Heap.limits: [base, last_free, free]
  bitmap,         \* set bits of the mark bitmap (word indices)
  mark_stack,     \* sequence of <<address, tag>>
  marked_space,   \* ExperimentalGC.marked_space
  bits,           \* bitmap iterator: the set bits still to come, ascending
  free,           \* local `free` of mark_compact / move_phase
  p,              \* object being processed by the current loop
  header,         \* local `header` of unthread
  wild,           \* unthread dereferenced a word outside the tracked memory
  old_hp,         \* local `old_hp` of experimental_gc_internal
  reclaimed,      \* ic::RECLAIMED
  max_live,       \* ic::MAX_LIVE
  mem0,           \* history: memory when the cycle started
  moves,          \* history: <<p, p_new>> of each object move_phase placed
  compacting,     \* history: is_compaction_beneficial() of this cycle
  chain,          \* history: the fields threaded onto p when unthread starts
  allocated,      \* the mark bitmap and the mark stack are allocated
  wraps,          \* times `old_hp - get_hp()` wrapped: RECLAIMED is
                  \* reclaimed + wraps * 2^32
  run,            \* static RUN of decide_strategy
  high_water,     \* the hp passed to decide_strategy: [mib, rest], mib MiB + rest bytes
  streak,         \* history: Young strategies returned since the last Full
  pushed          \* history: the <<address, tag>> pushed on the mark stack

\* The state of decide_strategy and its caller.
policy == <<run, high_water, streak>>

vars == <<mem, hp, last_hp, remembered, pc, strategy, limits, bitmap,
          mark_stack, marked_space, bits, free, p, header, wild, old_hp,
          reclaimed, max_live, mem0, moves, compacting, chain, allocated,
          wraps, run, high_water, streak, pushed>>

\* ----------------------------------------------------- heaps before a cycle
\* The object kinds allocated in the dynamic heap: MutBoxes and one-element
\* arrays, each with one pointer-sized field.
M == TAG_MUTBOX
A == TAG_ARRAY

\* What lies between the objects: one-word fillers and free-space blocks.
Fillers == {TAG_ONE_WORD_FILLER, TAG_FREE_SPACE}

\* The heaps: the empty heap, every sequence of three objects of these
\* kinds, and every sequence of two objects and one filler or free-space
\* block.
Layouts ==
  {<<>>,
   <<A, A, A>>, <<A, A, M>>, <<A, M, A>>, <<A, M, M>>,
   <<M, A, A>>, <<M, A, M>>, <<M, M, A>>, <<M, M, M>>}
  \cup {k \in [1..3 -> {A, M} \cup Fillers] :
          Cardinality({i \in 1..3 : k[i] \in Fillers}) = 1}

RECURSIVE WordsBefore(_, _)
WordsBefore(kinds, i) ==
  IF i <= 1 THEN 0 ELSE WordsBefore(kinds, i - 1) + KindWords(kinds[i - 1])

\* Address of the i-th object; the address after the last is the free pointer.
ObjAddrs(kinds) ==
  [i \in 1..Len(kinds) + 1 |-> heap_base + WORD_SIZE * WordsBefore(kinds, i)]

\* The words of one object: tag, forward pointer to itself, payload.
ObjWords(kind, addr, fieldval) ==
  CASE kind = TAG_MUTBOX -> <<kind, from_ptr(addr), fieldval>>
    [] kind = TAG_ONE_WORD_FILLER -> <<kind>>
    [] kind = TAG_FREE_SPACE -> <<kind, 0>>
    [] OTHER -> <<kind, from_ptr(addr), 1, fieldval>>

FieldOf(kind, addr) ==
  IF kind = TAG_MUTBOX THEN MutBoxField(addr) ELSE ArrayPayload(addr, 0)

RECURSIVE HeapWords(_, _, _, _)
HeapWords(kinds, addrs, fld, i) ==
  IF i > Len(kinds) THEN <<>>
  ELSE ObjWords(kinds[i], addrs[i], fld[i]) \o HeapWords(kinds, addrs, fld, i + 1)

\* The tracked words: the static root box (tag, forward, field), the
\* continuation table slot, the dynamic heap, and the word after it (the
\* start of the bitmap allocation).
InitMem(kinds, addrs, fld, rootval, contval) ==
  LET ws == <<TAG_MUTBOX, from_ptr(static_root_box), rootval, contval>>
            \o HeapWords(kinds, addrs, fld, 1) \o <<0>>
  IN [a \in {static_root_box + WORD_SIZE * (k - 1) : k \in 1..Len(ws)} |->
        ws[(a - static_root_box) \div WORD_SIZE + 1]]

RECURSIVE AscendingSeq(_)
AscendingSeq(S) ==
  IF S = {} THEN <<>>
  ELSE LET x == CHOOSE y \in S : \A z \in S : y <= z
       IN <<x>> \o AscendingSeq(S \ {x})

YoungPtr(v, lastfree) == is_ptr(v) /\ get_ptr(v) >= lastfree

\* Heaps the mutator can have built: nold objects survive from earlier cycles,
\* each field, the static root and the continuation table slot hold a scalar
\* or a pointer to an object (the continuation table only to an array), at
\* most MaxPtrs of them pointers.  MAX_LIVE is what the cycle that left
\* LAST_HP noted at least.  Write barrier contract: every
\* old-generation field holding a pointer into the young generation has been
\* recorded; at most MaxStale recorded fields have been overwritten since.
Init ==
  \E kinds \in Layouts :
    LET n == Len(kinds)
        addrs == ObjAddrs(kinds)
        objs == {i \in 1..n : kinds[i] \notin Fillers}
        ptrs == {from_ptr(addrs[i]) : i \in objs}
        arrs == {from_ptr(addrs[i]) : i \in {j \in 1..n : kinds[j] = TAG_ARRAY}}
    IN \E nold \in 0..n, fld \in [1..n -> {0} \cup ptrs],
          rootval \in {0} \cup ptrs, contval \in {0} \cup arrs :
         /\ \A i \in (1..n) \ objs : fld[i] = 0
         /\ Cardinality({i \in 1..n : fld[i] /= 0})
              + (IF rootval /= 0 THEN 1 ELSE 0)
              + (IF contval /= 0 THEN 1 ELSE 0) <= MaxPtrs
         /\ LET lastfree == addrs[nold + 1]
                oldf == {i \in objs : i <= nold /\ ~YoungPtr(fld[i], lastfree)}
                sound == {FieldOf(kinds[i], addrs[i]) :
                            i \in {j \in objs : j <= nold} \ oldf}
            IN \E stale \in SUBSET oldf :
                 /\ Cardinality(stale) <= MaxStale
                 /\ mem = InitMem(kinds, addrs, fld, rootval, contval)
                 /\ mem0 = mem
                 /\ hp = addrs[n + 1]
                 /\ last_hp = lastfree
                 /\ remembered = AscendingSeq(
                      sound \cup {FieldOf(kinds[i], addrs[i]) : i \in stale})
                 /\ pc = "idle"
                 /\ strategy = "None"
                 /\ limits = [base |-> heap_base, last_free |-> lastfree,
                              free |-> addrs[n + 1]]
                 /\ bitmap = {}
                 /\ mark_stack = <<>>
                 /\ marked_space = 0
                 /\ bits = <<>>
                 /\ free = 0
                 /\ p = 0
                 /\ header = 0
                 /\ wild = FALSE
                 /\ old_hp = 0
                 /\ reclaimed = 0
                 /\ max_live = lastfree - heap_base
                 /\ moves = <<>>
                 /\ compacting = FALSE
                 /\ chain = <<>>
                 /\ allocated = FALSE
                 /\ wraps = 0
                 /\ run = 0
                 /\ high_water = [mib |-> 0, rest |-> addrs[n + 1]]
                 /\ streak = 0
                 /\ pushed = <<>>

\* ------------------------------------------------------------- mark phase
Max(a, b) == IF a >= b THEN a ELSE b

\* experimental_gc_internal up to gc.mark_compact, mark_compact up to
\* mark_phase, and the reset of marked_space.
StartCycle(s) ==
  /\ pc = "idle"
  /\ strategy' = s
  /\ limits' = [base |-> heap_base, last_free |-> Max(last_hp, heap_base),
                free |-> hp]
  /\ old_hp' = hp
  /\ bitmap' = {}
  /\ mark_stack' = <<>>
  /\ marked_space' = 0
  /\ mem0' = mem
  /\ moves' = <<>>
  /\ compacting' = FALSE
  /\ chain' = <<>>
  /\ pc' = "mark_roots"
  /\ UNCHANGED <<mem, hp, last_hp, remembered, bits, free, p, header, wild,
                 reclaimed, max_live>>
  /\ allocated' = TRUE
  /\ pushed' = <<>>
  /\ UNCHANGED <<wraps, run, high_water, streak>>

\* mark_object without the test of the bitmap bit: a marked object is pushed
\* and counted again.
mark_object_unguarded(g, object) ==
  LET pointer == get_ptr(object)
      obj_idx == pointer \div WORD_SIZE
  IN IF strategy = "Young" /\ pointer < limits.last_free THEN g
     ELSE [bitmap |-> g.bitmap \cup {obj_idx},
           mark_stack |-> Append(g.mark_stack, <<pointer, mem[pointer]>>),
           marked_space |-> g.marked_space + object_size(mem, pointer) * WORD_SIZE]

\* mark_object on the marking state g = [bitmap, mark_stack, marked_space].
mark_object(g, object) ==
  LET pointer == get_ptr(object)
      obj_idx == pointer \div WORD_SIZE
  IN IF strategy = "Young" /\ pointer < limits.last_free THEN g
     ELSE IF obj_idx \in g.bitmap THEN g
     ELSE [bitmap |-> g.bitmap \cup {obj_idx},
           mark_stack |-> Append(g.mark_stack, <<pointer, mem[pointer]>>),
           marked_space |-> g.marked_space + object_size(mem, pointer) * WORD_SIZE]

\* mark_root_mutbox_fields / the closure of mark_fields: mark the referent of
\* each slot that holds a pointer into the dynamic heap.
RECURSIVE mark_slots(_, _)
mark_slots(g, slots) ==
  LET ptrs == SelectSeq(slots, LAMBDA f : pointer_to_dynamic_heap(mem, f))
  IN IF ptrs = <<>> THEN g
     ELSE mark_slots(mark_object(g, mem[Head(ptrs)]), Tail(ptrs))

mark_static_roots(g) ==
  mark_slots(g, [i \in 1..Len(static_roots) |-> MutBoxField(static_roots[i])])

\* The test of mark_additional_young_root_set on the value of a location.
still_young(object) == is_ptr(object) /\ get_raw(object) >= limits.last_free

RECURSIVE mark_additional_young_root_set(_, _)
mark_additional_young_root_set(g, locs) ==
  IF locs = <<>> THEN g
  ELSE LET object == mem[Head(locs)]
       IN mark_additional_young_root_set(
            IF still_young(object) THEN mark_object(g, object) ELSE g, Tail(locs))

MarkState == [bitmap |-> bitmap, mark_stack |-> mark_stack, marked_space |-> marked_space]

SetMarkState(g) ==
  /\ bitmap' = g.bitmap
  /\ mark_stack' = g.mark_stack
  /\ marked_space' = g.marked_space

\* mark_root_set
MarkRootSet ==
  /\ pc = "mark_roots"
  /\ LET g1 == mark_static_roots(MarkState)
         g2 == IF is_ptr(mem[continuation_table_ptr_loc])
               THEN mark_object(g1, mem[continuation_table_ptr_loc]) ELSE g1
         g3 == IF strategy = "Young"
               THEN mark_additional_young_root_set(g2, remembered) ELSE g2
     IN /\ SetMarkState(g3)
        /\ pushed' = pushed \o g3.mark_stack
  /\ pc' = "mark_all"
  /\ UNCHANGED <<mem, hp, last_hp, remembered, strategy, limits, bits, free, p,
                 header, wild, old_hp, reclaimed, max_live, mem0, moves,
                 compacting, chain>>
  /\ UNCHANGED <<allocated, wraps, run, high_water, streak>>

\* const SLICE_INCREMENT: u32 = 127
SLICE_INCREMENT == 127

\* visit_pointer_fields takes TAG_ARRAY and every tag >= TAG_ARRAY_SLICE_MIN
\* for an array; such a tag is the index at which the slice starts.
is_array_entry(tag) == tag = TAG_ARRAY \/ tag >= TAG_ARRAY_SLICE_MIN

slice_start_of(tag) == IF tag >= TAG_ARRAY_SLICE_MIN THEN tag ELSE 0

\* The slice closure of mark_fields with `new_start = SLICE_INCREMENT`: the
\* start of the slice is not added.
mark_array_slice_from_zero(len, slice_start) ==
  IF len - slice_start > SLICE_INCREMENT THEN SLICE_INCREMENT ELSE len

\* The slice closure of mark_fields: the index at which the slice that starts
\* at slice_start stops; when it is below len the suffix is pushed.
mark_array_slice(len, slice_start) ==
  IF len - slice_start > SLICE_INCREMENT
  THEN slice_start + SLICE_INCREMENT
  ELSE len

\* The field slots visit_pointer_fields gives to mark_fields for the popped
\* <<obj, tag>>: of an array the slice only.
MarkFieldSlots(m, obj, tag) ==
  IF is_array_entry(tag)
  THEN LET start == slice_start_of(tag)
           stop == mark_array_slice(m[ArrayLenAddr(obj)], start)
       IN [i \in 1..(stop - start) |-> ArrayPayload(obj, start + i - 1)]
  ELSE FieldSlots(m, obj, tag)

\* One iteration of mark_all_reachable: pop an entry and mark_fields, which
\* pushes the rest of a long array before it marks the fields of the slice.
MarkStep ==
  /\ pc = "mark_all"
  /\ mark_stack /= <<>>
  /\ LET top == mark_stack[Len(mark_stack)]
         rest == SubSeq(mark_stack, 1, Len(mark_stack) - 1)
         stop == mark_array_slice(mem[ArrayLenAddr(top[1])], slice_start_of(top[2]))
         g == [MarkState EXCEPT !.mark_stack =
                 IF is_array_entry(top[2]) /\ stop < mem[ArrayLenAddr(top[1])]
                 THEN Append(rest, <<top[1], stop>>)
                 ELSE rest]
         g1 == mark_slots(g, MarkFieldSlots(mem, top[1], top[2]))
     IN /\ SetMarkState(g1)
        /\ pushed' = pushed \o SubSeq(g1.mark_stack, Len(rest) + 1, Len(g1.mark_stack))
  /\ UNCHANGED <<mem, hp, last_hp, remembered, pc, strategy, limits, bits, free,
                 p, header, wild, old_hp, reclaimed, max_live, mem0, moves,
                 compacting, chain>>
  /\ UNCHANGED <<allocated, wraps, run, high_water, streak>>

\* generation_size
generation_size ==
  limits.free - (IF strategy = "Young" THEN limits.last_free ELSE limits.base)

\* is_compaction_beneficial without the threshold: every non-empty generation
\* is compacted.
is_compaction_beneficial_always ==
  generation_size > 0

\* is_compaction_beneficial written as !(survival_rate() >= 0.95): the NaN of
\* an empty generation compares false and compaction is selected.
is_compaction_beneficial_unless_high ==
  ~(generation_size > 0 /\ marked_space * 100 >= 95 * generation_size)

\* is_compaction_beneficial: survival_rate() < 0.95 in f64; 0/0 is NaN, and
\* NaN < 0.95 is false.
is_compaction_beneficial ==
  generation_size > 0 /\ marked_space * 100 < 95 * generation_size

\* iter_bits, with BitmapIter::advance for a Young cycle.
iter_bits == AscendingSeq(bitmap)

advance(it, address) == SelectSeq(it, LAMBDA b : b * WORD_SIZE >= address)

GenerationBits ==
  IF strategy = "Young" THEN advance(iter_bits, limits.last_free) ELSE iter_bits

\* mark_all_reachable found the stack empty; mark_compact decides on compaction.
Decide ==
  /\ pc = "mark_all"
  /\ mark_stack = <<>>
  /\ compacting' = is_compaction_beneficial
  /\ IF is_compaction_beneficial
     THEN /\ pc' = "thread_backward"
          /\ bits' = GenerationBits
          /\ free' = limits.free
     ELSE /\ pc' = "set_hp"
          /\ bits' = <<>>
          /\ free' = limits.free
  /\ UNCHANGED <<mem, hp, last_hp, remembered, strategy, limits, bitmap,
                 mark_stack, marked_space, p, header, wild, old_hp, reclaimed,
                 max_live, mem0, moves, chain>>
  /\ UNCHANGED <<allocated, wraps, run, high_water, streak, pushed>>

\* ------------------------------------------------------- threading
should_be_threaded(address) ==
  IF strategy = "Young" THEN address >= limits.last_free ELSE TRUE

\* thread: store the pointed object's header in the field and the field
\* address in the pointed object's header.
thread(m, field) ==
  LET pointed == get_ptr(m[field])
  IN IF should_be_threaded(pointed)
     THEN [m EXCEPT ![field] = m[pointed], ![pointed] = field]
     ELSE m

\* The closure of thread_backward_pointer_fields (dir = "backward") or of
\* thread_fwd_pointers (dir = "forward") run by visit_pointer_fields.
RECURSIVE thread_slots(_, _, _, _)
thread_slots(m, obj, slots, dir) ==
  LET hit(f) == /\ pointer_to_dynamic_heap(m, f)
                /\ IF dir = "backward" THEN get_ptr(m[f]) <= obj
                                        ELSE get_ptr(m[f]) > obj
      hits == {i \in DOMAIN slots : hit(slots[i])}
  IN IF hits = {} THEN m
     ELSE LET i == CHOOSE k \in hits : \A j \in hits : k <= j
          IN thread_slots(thread(m, slots[i]), obj,
                          SubSeq(slots, i + 1, Len(slots)), dir)

thread_backward_pointer_fields(m, obj, obj_tag) ==
  thread_slots(m, obj, FieldSlots(m, obj, obj_tag), "backward")

thread_fwd_pointers(m, obj) ==
  thread_slots(m, obj, FieldSlots(m, obj, m[obj]), "forward")

Trap ==
  /\ pc' = "trapped"
  /\ UNCHANGED <<mem, hp, last_hp, remembered, strategy, limits, bitmap,
                 mark_stack, marked_space, bits, free, p, header, wild, old_hp,
                 reclaimed, max_live, mem0, moves,
                 compacting, chain>>

\* One iteration of thread_all_backward_pointers.
ThreadBackwardStep ==
  /\ pc = "thread_backward"
  /\ bits /= <<>>
  /\ LET obj == Head(bits) * WORD_SIZE
         tag == mem[obj]
     IN IF tag < TAG_ARRAY_SLICE_MIN /\ KnownShape(tag)
        THEN /\ mem' = thread_backward_pointer_fields(mem, obj, tag)
             /\ bits' = Tail(bits)
             /\ p' = obj
             /\ UNCHANGED <<hp, last_hp, remembered, pc, strategy, limits,
                            bitmap, mark_stack, marked_space, free, header,
                            wild, old_hp, reclaimed, max_live, mem0, moves,
                 compacting, chain>>
        ELSE Trap
  /\ UNCHANGED <<allocated, wraps, run, high_water, streak, pushed>>

\* thread_static_roots / thread_root_mutbox_fields
RECURSIVE thread_static_roots(_, _)
thread_static_roots(m, i) ==
  IF i > Len(static_roots) THEN m
  ELSE LET field_addr == MutBoxField(static_roots[i])
       IN thread_static_roots(
            IF pointer_to_dynamic_heap(m, field_addr) THEN thread(m, field_addr) ELSE m,
            i + 1)

\* The rest of thread_backward_phase after the heap traversal, and the entry
\* of move_phase.
ThreadRoots ==
  /\ pc = "thread_backward"
  /\ bits = <<>>
  /\ LET m1 == thread_static_roots(mem, 1)
     IN mem' = IF is_ptr(m1[continuation_table_ptr_loc])
               THEN thread(m1, continuation_table_ptr_loc) ELSE m1
  /\ free' = limits.base
  /\ IF strategy = "Young"
     THEN /\ pc' = "old_generation"
          /\ p' = limits.base
          /\ bits' = <<>>
     ELSE /\ pc' = "move"
          /\ p' = p
          /\ bits' = iter_bits
  /\ UNCHANGED <<hp, last_hp, remembered, strategy, limits, bitmap, mark_stack,
                 marked_space, header, wild, old_hp, reclaimed, max_live, mem0,
                 moves,
                 compacting, chain>>
  /\ UNCHANGED <<allocated, wraps, run, high_water, streak, pushed>>

\* (*object).forward.is_null() || (*object).forward.get_ptr() == pointer
forward_ok(m, pointer) ==
  m[ForwardAddr(pointer)] = 0 \/ get_ptr(m[ForwardAddr(pointer)]) = pointer

\* One iteration of thread_old_generation_pointers.
OldGenerationStep ==
  /\ pc = "old_generation"
  /\ p < limits.last_free
  /\ LET tag == mem[p]
         ok == /\ tag < TAG_FREE_SPACE
               /\ tag /= TAG_ONE_WORD_FILLER => (forward_ok(mem, p) /\ KnownShape(tag))
         m1 == IF tag /= TAG_ONE_WORD_FILLER THEN thread_fwd_pointers(mem, p) ELSE mem
     IN IF ok /\ object_size(m1, p) > 0
        THEN /\ mem' = m1
             /\ p' = p + object_size(m1, p) * WORD_SIZE
             /\ UNCHANGED <<hp, last_hp, remembered, pc, strategy, limits,
                            bitmap, mark_stack, marked_space, bits, free,
                            header, wild, old_hp, reclaimed, max_live, mem0,
                            moves,
                 compacting, chain>>
        ELSE Trap
  /\ UNCHANGED <<allocated, wraps, run, high_water, streak, pushed>>

\* thread_old_generation_pointers returns; move_phase skips the old
\* generation in the bitmap and starts placing objects at last_free.
OldGenerationDone ==
  /\ pc = "old_generation"
  /\ p >= limits.last_free
  /\ bits' = advance(iter_bits, limits.last_free)
  /\ free' = limits.last_free
  /\ pc' = "move"
  /\ UNCHANGED <<mem, hp, last_hp, remembered, strategy, limits, bitmap,
                 mark_stack, marked_space, p, header, wild, old_hp, reclaimed,
                 max_live, mem0, moves,
                 compacting, chain>>
  /\ UNCHANGED <<allocated, wraps, run, high_water, streak, pushed>>

\* The field addresses linked from a header word: the fields threaded onto
\* the object, most recent first.
RECURSIVE ChainOf(_, _, _)
ChainOf(m, h, fuel) ==
  IF h % 2 = 1 \/ h \notin DOMAIN m \/ fuel = 0 THEN <<>>
  ELSE <<h>> \o ChainOf(m, m[h], fuel - 1)

\* move_phase takes the next marked object p; unthread reads its header.
MoveBegin ==
  /\ pc = "move"
  /\ bits /= <<>>
  /\ LET obj == Head(bits) * WORD_SIZE
     IN IF should_be_threaded(obj)
        THEN /\ p' = obj
             /\ header' = mem[obj]
             /\ bits' = Tail(bits)
             /\ pc' = "unthread"
             /\ chain' = ChainOf(mem, mem[obj], Cardinality(DOMAIN mem))
             /\ UNCHANGED <<mem, hp, last_hp, remembered, strategy, limits,
                            bitmap, mark_stack, marked_space, free, wild,
                            old_hp, reclaimed, max_live, mem0, moves,
                            compacting>>
        ELSE Trap
  /\ UNCHANGED <<allocated, wraps, run, high_water, streak, pushed>>

\* What a load from the untracked low memory may return: an even word (taken
\* for another field address), an odd word that is the tag of some other
\* shape, an odd word object_size traps on.
WildWords == {0, TAG_BITS64, TAG_FWD_PTR}

\* One iteration of the loop of unthread: header has low bit 0 and is taken
\* for a field address.  A header that is no address of a tracked word (an
\* even tag such as TAG_MUTBOX) is dereferenced all the same: the store goes
\* to untracked memory and the load returns any word.
UnthreadLink ==
  /\ pc = "unthread"
  /\ header % 2 = 0
  /\ IF header \in DOMAIN mem
     THEN /\ mem' = [mem EXCEPT ![header] = from_ptr(free)]
          /\ header' = mem[header]
          /\ wild' = wild
     ELSE /\ mem' = mem
          /\ header' \in WildWords
          /\ wild' = TRUE
  /\ UNCHANGED <<hp, last_hp, remembered, pc, strategy, limits, bitmap,
                 mark_stack, marked_space, bits, free, p, old_hp, reclaimed,
                 max_live, mem0, moves,
                 compacting, chain>>
  /\ UNCHANGED <<allocated, wraps, run, high_water, streak, pushed>>

\* memcpy_words(to, from, n)
memcpy_words(m, to, from, n) ==
  [a \in DOMAIN m |->
     IF a >= to /\ a < to + n * WORD_SIZE THEN m[from + (a - to)] ELSE m[a]]

InMemory(m, from, n) ==
  \A k \in 0..n - 1 : from + k * WORD_SIZE \in DOMAIN m

\* The end of unthread (the original header is restored) and the rest of the
\* loop body of move_phase: move the object, advance free, thread the forward
\* pointers of the object at its new address.
MoveObject ==
  /\ pc = "unthread"
  /\ header % 2 = 1
  /\ LET m1 == [mem EXCEPT ![p] = header]
         p_new == free
         p_size_words == object_size(m1, p)
         m2 == IF p_new /= p
               THEN [memcpy_words(m1, p_new, p, p_size_words)
                       EXCEPT ![ForwardAddr(p_new)] = from_ptr(p_new)]
               ELSE m1
     IN IF /\ p_size_words > 0
           /\ InMemory(m1, p, p_size_words)
           /\ InMemory(m1, p_new, p_size_words)
           /\ KnownShape(m2[p_new])
        THEN /\ mem' = thread_fwd_pointers(m2, p_new)
             /\ free' = free + p_size_words * WORD_SIZE
             /\ moves' = Append(moves, <<p, p_new>>)
             /\ pc' = "move"
             /\ UNCHANGED <<hp, last_hp, remembered, strategy, limits, bitmap,
                            mark_stack, marked_space, bits, p, header, wild,
                            old_hp, reclaimed, max_live, mem0, compacting,
                            chain>>
        ELSE Trap
  /\ UNCHANGED <<allocated, wraps, run, high_water, streak, pushed>>

\* move_phase returns free.
MoveDone ==
  /\ pc = "move"
  /\ bits = <<>>
  /\ pc' = "set_hp"
  /\ UNCHANGED <<mem, hp, last_hp, remembered, strategy, limits, bitmap,
                 mark_stack, marked_space, bits, free, p, header, wild, old_hp,
                 reclaimed, max_live, mem0, moves,
                 compacting, chain>>
  /\ UNCHANGED <<allocated, wraps, run, high_water, streak, pushed>>

\* set_hp(free), free_mark_stack, free_bitmap, and the statistics of
\* experimental_gc_internal.  `old_hp - get_hp()` is a u32 subtraction: when
\* get_hp() is above old_hp it wraps, and note_reclaimed gets 2^32 minus the
\* difference.
SetHp ==
  /\ pc = "set_hp"
  /\ hp' = free
  /\ mark_stack' = <<>>
  /\ bitmap' = {}
  /\ reclaimed' = reclaimed + (old_hp - free)
  /\ wraps' = IF old_hp < free THEN wraps + 1 ELSE wraps
  /\ max_live' = Max(max_live, free - heap_base)
  /\ pc' = "returned"
  /\ UNCHANGED <<mem, last_hp, remembered, strategy, limits, marked_space,
                 bits, free, p, header, wild, old_hp, mem0, moves,
                 compacting, chain>>
  /\ allocated' = FALSE
  /\ UNCHANGED <<run, high_water, streak, pushed>>

\* experimental_gc without `LAST_HP = HP`: the remembered set is renewed but
\* the generation boundary stays where it was.
FinishCycle_keeps_last_hp ==
  /\ pc = "returned"
  /\ remembered' = <<>>
  /\ pc' = "done"
  /\ UNCHANGED <<mem, hp, last_hp, strategy, limits, bitmap, mark_stack,
                 marked_space, bits, free, p, header, wild, old_hp, reclaimed,
                 max_live, mem0, moves, compacting, chain, allocated, wraps,
                 run, high_water, streak, pushed>>

\* experimental_gc after experimental_gc_internal: LAST_HP = HP and
\* init_write_barrier.
FinishCycle ==
  /\ pc = "returned"
  /\ last_hp' = hp
  /\ remembered' = <<>>
  /\ pc' = "done"
  /\ UNCHANGED <<mem, hp, strategy, limits, bitmap, mark_stack, marked_space,
                 bits, free, p, header, wild, old_hp, reclaimed, max_live,
                 mem0, moves,
                 compacting, chain>>
  /\ UNCHANGED <<allocated, wraps, run, high_water, streak, pushed>>

Next ==
  \/ \E s \in {"Young", "Full"} : StartCycle(s)
  \/ MarkRootSet
  \/ MarkStep
  \/ Decide
  \/ ThreadBackwardStep
  \/ ThreadRoots
  \/ OldGenerationStep
  \/ OldGenerationDone
  \/ MoveBegin
  \/ UnthreadLink
  \/ MoveObject
  \/ MoveDone
  \/ SetHp
  \/ FinishCycle

Spec == Init /\ [][Next]_vars

\* ------------------------------------------------- heaps with a long array
\* Lengths of the long array: exactly one slice, and one element more than
\* k - 1 slices.
ArrayLens ==
  {SLICE_INCREMENT} \cup {SLICE_INCREMENT * (k - 1) + 1 : k \in 2..MaxSlices}

\* Two MutBoxes and one long array, the array first or second.
MarkLayouts == {<<A, M, M>>, <<M, A, M>>}

RECURSIVE LongWordsBefore(_, _, _)
LongWordsBefore(kinds, len, i) ==
  IF i <= 1 THEN 0
  ELSE LongWordsBefore(kinds, len, i - 1)
         + (IF kinds[i - 1] = TAG_ARRAY THEN 3 + len ELSE 3)

LongAddrs(kinds, len) ==
  [i \in 1..Len(kinds) + 1 |-> heap_base + WORD_SIZE * LongWordsBefore(kinds, len, i)]

\* The words of one object; of the array the first and the last element are
\* given, the elements between them are scalars.
LongObjWords(kind, addr, len, first, last) ==
  IF kind = TAG_MUTBOX THEN <<kind, from_ptr(addr), first>>
  ELSE <<kind, from_ptr(addr), len, first>> \o [i \in 1..len - 2 |-> 0] \o <<last>>

RECURSIVE LongHeapWords(_, _, _, _, _, _)
LongHeapWords(kinds, addrs, len, first, last, i) ==
  IF i > Len(kinds) THEN <<>>
  ELSE LongObjWords(kinds[i], addrs[i], len, first[i], last[i])
         \o LongHeapWords(kinds, addrs, len, first, last, i + 1)

LongInitMem(kinds, addrs, len, first, last, rootval, contval) ==
  LET ws == <<TAG_MUTBOX, from_ptr(static_root_box), rootval, contval>>
            \o LongHeapWords(kinds, addrs, len, first, last, 1) \o <<0>>
  IN [a \in {static_root_box + WORD_SIZE * (k - 1) : k \in 1..Len(ws)} |->
        ws[(a - static_root_box) \div WORD_SIZE + 1]]

\* The pointer fields of the i-th object that the heap may fill.
LongFields(kinds, addrs, len, i) ==
  IF kinds[i] = TAG_MUTBOX THEN {MutBoxField(addrs[i])}
  ELSE {ArrayPayload(addrs[i], 0), ArrayPayload(addrs[i], len - 1)}

\* Heaps as in Init, with an array of several slices whose first and last
\* element may hold pointers; the remembered set holds exactly the
\* old-generation fields that point into the young generation.
InitMark ==
  \E kinds \in MarkLayouts, len \in ArrayLens :
    LET n == Len(kinds)
        addrs == LongAddrs(kinds, len)
        ptrs == {from_ptr(addrs[i]) : i \in 1..n}
        arrs == {from_ptr(addrs[i]) : i \in {j \in 1..n : kinds[j] = TAG_ARRAY}}
    IN \E nold \in 0..1, first \in [1..n -> {0} \cup ptrs],
          last \in [1..n -> {0} \cup ptrs],
          rootval \in {0} \cup ptrs, contval \in {0} \cup arrs :
         /\ \A i \in 1..n : kinds[i] = TAG_MUTBOX => last[i] = 0
         /\ Cardinality({i \in 1..n : first[i] /= 0})
              + Cardinality({i \in 1..n : last[i] /= 0})
              + (IF rootval /= 0 THEN 1 ELSE 0)
              + (IF contval /= 0 THEN 1 ELSE 0) <= MaxPtrs
         /\ LET lastfree == addrs[nold + 1]
                m == LongInitMem(kinds, addrs, len, first, last, rootval, contval)
                oldflds == UNION {LongFields(kinds, addrs, len, i) : i \in 1..nold}
            IN /\ mem = m
               /\ mem0 = m
               /\ hp = addrs[n + 1]
               /\ last_hp = lastfree
               /\ remembered = AscendingSeq(
                    {f \in oldflds : YoungPtr(m[f], lastfree)})
               /\ pc = "idle"
               /\ strategy = "None"
               /\ limits = [base |-> heap_base, last_free |-> lastfree,
                            free |-> addrs[n + 1]]
               /\ bitmap = {}
               /\ mark_stack = <<>>
               /\ marked_space = 0
               /\ bits = <<>>
               /\ free = 0
               /\ p = 0
               /\ header = 0
               /\ wild = FALSE
               /\ old_hp = 0
               /\ reclaimed = 0
               /\ max_live = lastfree - heap_base
               /\ moves = <<>>
               /\ compacting = FALSE
               /\ chain = <<>>
               /\ allocated = FALSE
               /\ wraps = 0
               /\ run = 0
               /\ high_water = [mib |-> 0, rest |-> addrs[n + 1]]
               /\ streak = 0
               /\ pushed = <<>>

\* mark_phase is straight-line code in one thread: a step of it that can be
\* taken is taken.
SpecMark ==
  InitMark /\ [][Next]_vars /\ WF_vars(MarkRootSet) /\ WF_vars(MarkStep)

\* ------------------------------------------------------ strategy decision
\* A usize too large for one number of the model is kept as [mib, rest]:
\* mib * 2^20 + rest bytes, 0 <= rest < 2^20.
MiB == 1024 * 1024

\* const CRITICAL_MEMORY_LIMIT: usize = (4096 - 256) * 1024 * 1024
CRITICAL_MEMORY_LIMIT == [mib |-> 4096 - 256, rest |-> 0]

\* a >= b on usize
AtLeast(a, b) == a.mib > b.mib \/ (a.mib = b.mib /\ a.rest >= b.rest)

\* decide_strategy without the test of the critical limit.
decide_strategy_periodic_only(r, h) ==
  IF r % 3 = 0 THEN "Full" ELSE "Young"

\* decide_strategy without the periodic Full cycle.
decide_strategy_limit_only(r, h) ==
  IF AtLeast(h, CRITICAL_MEMORY_LIMIT) THEN "Full" ELSE "Young"

\* decide_strategy(hp) once RUN = RUN + 1 has given r.
decide_strategy(r, h) ==
  IF r % 3 = 0 THEN "Full"
  ELSE IF AtLeast(h, CRITICAL_MEMORY_LIMIT) THEN "Full" ELSE "Young"

\* Values of ic::HP at a call of experimental_gc: a small heap, the last
\* bytes below the critical limit, the limit, the first bytes above it, the
\* last word of the 4 GiB address space.
HighWaters ==
  LET L == CRITICAL_MEMORY_LIMIT.mib
  IN {[mib |-> 0, rest |-> heap_base],
      [mib |-> L - 1, rest |-> 0],
      [mib |-> L - 1, rest |-> MiB - WORD_SIZE],
      [mib |-> L, rest |-> 0],
      [mib |-> L, rest |-> WORD_SIZE],
      [mib |-> L + 1, rest |-> 0],
      [mib |-> 4095, rest |-> MiB - WORD_SIZE]}

\* Before any call of decide_strategy: RUN = 0, no cycle in progress.
InitStrategy ==
  /\ mem = <<>>
  /\ mem0 = <<>>
  /\ hp = heap_base
  /\ last_hp = heap_base
  /\ remembered = <<>>
  /\ pc = "policy"
  /\ strategy = "None"
  /\ limits = [base |-> heap_base, last_free |-> heap_base, free |-> heap_base]
  /\ bitmap = {}
  /\ mark_stack = <<>>
  /\ marked_space = 0
  /\ bits = <<>>
  /\ free = 0
  /\ p = 0
  /\ header = 0
  /\ wild = FALSE
  /\ old_hp = 0
  /\ reclaimed = 0
  /\ max_live = 0
  /\ moves = <<>>
  /\ compacting = FALSE
  /\ chain = <<>>
  /\ allocated = FALSE
  /\ wraps = 0
  /\ run = 0
  /\ high_water = [mib |-> 0, rest |-> heap_base]
  /\ streak = 0
  /\ pushed = <<>>

\* experimental_gc evaluates decide_strategy(ic::HP) with HP = h.
DecideStrategy(h) ==
  /\ pc = "policy"
  /\ run < MaxRuns
  /\ run' = run + 1
  /\ high_water' = h
  /\ strategy' = decide_strategy(run + 1, h)
  /\ streak' = IF strategy' = "Young" THEN streak + 1 ELSE 0
  /\ UNCHANGED <<mem, hp, last_hp, remembered, pc, limits, bitmap, mark_stack,
                 marked_space, bits, free, p, header, wild, old_hp, reclaimed,
                 max_live, mem0, moves, compacting, chain, allocated, wraps,
                 pushed>>

NextStrategy == \E h \in HighWaters : DecideStrategy(h)

SpecStrategy == InitStrategy /\ [][NextStrategy]_vars

\* ============================================================ properties
Range(f) == {f[i] : i \in DOMAIN f}

\* The objects of the heap [a, end) of memory m, found by following sizes.
RECURSIVE HeapObjs(_, _, _)
HeapObjs(m, a, end) ==
  IF a >= end \/ a \notin DOMAIN m THEN {}
  ELSE IF m[a] \in Fillers
  THEN HeapObjs(m, a + object_size(m, a) * WORD_SIZE, end)
  ELSE IF ~KnownShape(m[a]) THEN {}
  ELSE {a} \cup HeapObjs(m, a + object_size(m, a) * WORD_SIZE, end)

\* The fields of object o that hold a pointer into the dynamic heap.
PtrSlots(m, o) == {f \in Range(FieldSlots(m, o, m[o])) : pointer_to_dynamic_heap(m, f)}

Targets(m, o) == {get_ptr(m[f]) : f \in PtrSlots(m, o)}

\* The root slots of the cycle, in the memory the cycle started with: the
\* static root fields, the continuation table slot and, in a Young cycle, the
\* recorded fields that hold a pointer into the young generation.
RootSlots0 ==
  {f \in {MutBoxField(static_roots[i]) : i \in 1..Len(static_roots)} :
     pointer_to_dynamic_heap(mem0, f)}
  \cup {f \in {continuation_table_ptr_loc} : is_ptr(mem0[f])}
  \cup (IF strategy = "Young"
        THEN {f \in Range(remembered) : YoungPtr(mem0[f], limits.last_free)}
        ELSE {})

RECURSIVE ReachableFrom(_)
ReachableFrom(S) ==
  LET T == S \cup UNION {Targets(mem0, o) : o \in S}
  IN IF T = S THEN S ELSE ReachableFrom(T)

\* The objects reachable from the roots when the cycle started.
Reach0 == ReachableFrom({get_ptr(mem0[f]) : f \in RootSlots0})

\* The objects of the collected generation.
InScope(o) == strategy = "Full" \/ o >= limits.last_free

\* Where move_phase placed object o (-1: nowhere); objects outside the
\* collected generation and objects of a cycle without compaction stay.
NewAddr(o) ==
  IF compacting /\ InScope(o)
  THEN IF \E i \in 1..Len(moves) : moves[i][1] = o
       THEN moves[CHOOSE i \in 1..Len(moves) : moves[i][1] = o][2]
       ELSE -1
  ELSE o

\* Object o of the old memory is found at its new address with the same tag,
\* size and non-pointer payload, its pointers rewritten to the new addresses.
Preserved(o) ==
  LET n == NewAddr(o)
  IN /\ n >= 0
     /\ mem[n] = mem0[o]
     /\ object_size(mem, n) = object_size(mem0, o)
     /\ \A k \in 1..object_size(mem0, o) - 1 :
          LET a0 == o + k * WORD_SIZE
              a1 == n + k * WORD_SIZE
          IN IF a0 = ForwardAddr(o) THEN mem[a1] = from_ptr(n)
             ELSE IF a0 \in PtrSlots(mem0, o)
             THEN /\ NewAddr(get_ptr(mem0[a0])) >= 0
                  /\ mem[a1] = from_ptr(NewAddr(get_ptr(mem0[a0])))
             ELSE mem[a1] = mem0[a0]

\* A recorded field points to the first object of the young generation, the
\* one whose raw word is below last_free.
FirstYoungRecorded ==
  /\ strategy = "Young"
  /\ \E f \in Range(remembered) : mem0[f] = from_ptr(limits.last_free)

\* The objects of the heap when the cycle started, and those that have a
\* place after the cycle.
Objs0 == HeapObjs(mem0, heap_base, limits.free)

Survivors == {o \in Objs0 : NewAddr(o) >= 0}

RECURSIVE SumBytes(_, _)
SumBytes(m, S) ==
  IF S = {} THEN 0
  ELSE LET o == CHOOSE x \in S : TRUE
       IN object_size(m, o) * WORD_SIZE + SumBytes(m, S \ {o})

\* C1: after a cycle every object that was reachable from the roots exists
\* with the same tag, size and non-pointer payload, and its pointer fields
\* refer to the new copies of their referents.
ReachabilityPreserved == pc = "returned" => \A o \in Reach0 : Preserved(o)

\* The same, for the cycles that meet neither the dereference of an even tag
\* in unthread nor the comparison of a raw word in the remembered-set pass.
ReachabilityPreservedOddTags ==
  (pc = "returned" /\ ~wild /\ ~FirstYoungRecorded) => \A o \in Reach0 : Preserved(o)

\* A word is the skewed address of an object header of the heap after the
\* cycle (or of the static root box) whose tag is a legitimate tag with low
\* bit 1.
ValidHeader(a) ==
  /\ a \in {static_roots[i] : i \in 1..Len(static_roots)}
       \cup {NewAddr(o) : o \in Survivors}
  /\ a < hp
  /\ mem[a] \in ObjectTags
  /\ mem[a] % 2 = 1

ValidPointer(v) == is_ptr(v) /\ ValidHeader(get_ptr(v))

\* C2: after a completed cycle every pointer field of every surviving object,
\* every static root field and the continuation table slot holds the skewed
\* address of an object header with a legitimate tag of low bit 1.
PointerConsistency ==
  pc = "returned" =>
    /\ \A o \in Survivors :
         /\ mem[NewAddr(o)] \in ObjectTags
         /\ \A f \in PtrSlots(mem0, o) : ValidPointer(mem[NewAddr(o) + (f - o)])
    /\ \A i \in 1..Len(static_roots) :
         pointer_to_dynamic_heap(mem0, MutBoxField(static_roots[i]))
           => ValidPointer(mem[MutBoxField(static_roots[i])])
    /\ is_ptr(mem0[continuation_table_ptr_loc])
         => ValidPointer(mem[continuation_table_ptr_loc])

\* C3: move_phase places every object at an address not above its own, and
\* keeps the address order of the objects it places.
AddressMonotonicity ==
  /\ \A i \in 1..Len(moves) : moves[i][2] <= moves[i][1]
  /\ \A i, j \in 1..Len(moves) :
       moves[i][1] < moves[j][1] => moves[i][2] < moves[j][2]

AddressMonotonicityOddTags == ~wild => AddressMonotonicity

\* The words of the old generation [base, last_free).
OldWords == {a \in DOMAIN mem0 : a >= heap_base /\ a < limits.last_free}

OldObjs0 == {o \in Objs0 : o < limits.last_free}

\* C4: in a Young cycle no tag word below last_free is overwritten and no
\* object below last_free is placed by move_phase; at the end every word of
\* [base, last_free) has its old value, except the pointer fields to relocated
\* young survivors, which hold the survivor's new skewed address.
GenerationalScope ==
  strategy = "Young" =>
    /\ \A o \in OldObjs0 : mem[o] = mem0[o]
    /\ \A i \in 1..Len(moves) : moves[i][1] >= limits.last_free
    /\ pc = "returned" =>
         \A a \in OldWords :
           \/ mem[a] = mem0[a]
           \/ /\ \E o \in OldObjs0 : a \in PtrSlots(mem0, o)
              /\ NewAddr(get_ptr(mem0[a])) >= 0
              /\ mem[a] = from_ptr(NewAddr(get_ptr(mem0[a])))

GenerationalScopeSound == ~FirstYoungRecorded => GenerationalScope

\* survival_rate() >= 0.95, on integers.
SurvivalHigh == generation_size > 0 /\ marked_space * 100 >= 95 * generation_size

SurvivalLow == generation_size > 0 /\ marked_space * 100 < 95 * generation_size

\* C5: the compaction phases run only if marked_space / generation_size <
\* 0.95; when the ratio is >= 0.95 the cycle ends after marking, set_hp gets
\* the free of before the cycle and no word of memory has changed.
SurvivalRateGating ==
  /\ pc \in {"thread_backward", "old_generation", "move", "unthread"} => SurvivalLow
  /\ (pc \in {"set_hp", "returned"} /\ SurvivalHigh) =>
       /\ free = old_hp
       /\ mem = mem0
       /\ moves = <<>>
       /\ pc = "returned" => hp = old_hp

SurvivalRateGatingWitness ==
  pc = "returned" /\ SurvivalHigh /\ marked_space > 0 /\ hp = old_hp

\* C6: when the loop of unthread(p, new_loc) ends, every field that was
\* threaded onto p holds the skewed new_loc and the header to restore is the
\* tag p had before any threading.
ThreadingRoundTrip ==
  (pc = "unthread" /\ header % 2 = 1) =>
    /\ header = mem0[p]
    /\ \A i \in 1..Len(chain) : mem[chain[i]] = from_ptr(free)

ThreadingRoundTripOddTags ==
  (pc = "unthread" /\ header % 2 = 1 /\ mem0[p] % 2 = 1) =>
    /\ header = mem0[p]
    /\ \A i \in 1..Len(chain) : mem[chain[i]] = from_ptr(free)

\* C7: after the remembered-set pass of a Young cycle, the referent of every
\* recorded field that holds a pointer to an address >= last_free is marked.
RememberedRootsMarked ==
  (strategy = "Young" /\ pc = "mark_all") =>
    \A f \in Range(remembered) :
      YoungPtr(mem[f], limits.last_free) => (get_ptr(mem[f]) \div WORD_SIZE) \in bitmap

\* The recorded fields that no longer hold a pointer into the young generation.
StaleFields == {f \in Range(remembered) : ~YoungPtr(mem0[f], limits.last_free)}

\* The young objects no root reaches.
Unreached == {o \in Objs0 : o >= limits.last_free /\ o \notin Reach0}

\* C8: a Young cycle marks nothing through a stale entry: every marked object
\* is reachable from a root that holds a pointer now; an object reachable
\* from no such root is not placed by move_phase, and a compacting cycle
\* lowers free by at least the size of the unreached objects.
StaleEntriesIgnored ==
  (strategy = "Young" /\ StaleFields /= {}) =>
    /\ \A b \in bitmap : b * WORD_SIZE \in Reach0
    /\ \A i \in 1..Len(moves) : moves[i][1] \in Reach0
    /\ (pc = "returned" /\ compacting) => hp <= old_hp - SumBytes(mem0, Unreached)

StaleEntriesIgnoredOddTags == ~wild => StaleEntriesIgnored

\* Every tag constant of a heap object has its lowest bit set.
TagLowBitSet == \A t \in ObjectTags : t % 2 = 1

\* C9: the tag of every object unthread works on has its lowest bit set to 1,
\* so the loop of unthread stops at the original tag and never takes a tag
\* for a field address to dereference.
TagEncoding ==
  pc = "unthread" =>
    /\ mem0[p] \in ObjectTags /\ mem0[p] % 2 = 1
    /\ header % 2 = 0 => header \notin ObjectTags
    /\ header % 2 = 1 => header = mem0[p]

\* C10: mark_object on an object whose bit is set changes nothing, and
\* marked_space is the sum of the sizes of the objects whose bit is set.
MarkingIdempotent ==
  pc \in {"mark_roots", "mark_all"} =>
    /\ \A b \in bitmap : mark_object(MarkState, from_ptr(b * WORD_SIZE)) = MarkState
    /\ marked_space = SumBytes(mem, {b * WORD_SIZE : b \in bitmap})

\* The mark phase has ended and some marked object is the referent of two
\* root slots or fields of marked objects.
AllRootSlots ==
  {MutBoxField(static_roots[i]) : i \in 1..Len(static_roots)}
  \cup {continuation_table_ptr_loc} \cup Range(remembered)

MarkingIdempotentWitness ==
  /\ pc = "mark_all"
  /\ mark_stack = <<>>
  /\ \E b \in bitmap :
       Cardinality({f \in AllRootSlots \cup UNION {PtrSlots(mem, c * WORD_SIZE) : c \in bitmap} :
                      is_ptr(mem[f]) /\ get_ptr(mem[f]) = b * WORD_SIZE}) >= 2

\* a > b and a < b on usize.
Above(a, b) == AtLeast(a, b) /\ a /= b

Below(a, b) == ~AtLeast(a, b)

\* C11: when the hp passed to decide_strategy is above CRITICAL_MEMORY_LIMIT
\* the strategy returned is Full whatever RUN is; Young is returned only when
\* hp is below the limit and the run is not a periodic Full run.
CriticalLimitStrategy ==
  run > 0 =>
    /\ Above(high_water, CRITICAL_MEMORY_LIMIT) => strategy = "Full"
    /\ strategy = "Young" =>
         (Below(high_water, CRITICAL_MEMORY_LIMIT) /\ run % 3 /= 0)

\* The critical limit forced a Full cycle on a run that is not periodic.
CriticalLimitStrategyWitness ==
  /\ run % 3 /= 0
  /\ Above(high_water, CRITICAL_MEMORY_LIMIT)
  /\ strategy = "Full"

\* C12: every third call of decide_strategy returns Full, so at most two
\* consecutive cycles are Young.
BoundedDistanceToFull ==
  /\ streak <= 2
  /\ (run > 0 /\ run % 3 = 0) => strategy = "Full"

\* Two Young cycles in a row, with hp below the critical limit.
BoundedDistanceToFullWitness ==
  /\ streak = 2
  /\ strategy = "Young"
  /\ Below(high_water, CRITICAL_MEMORY_LIMIT)

\* C13: after a cycle run by experimental_gc, with either strategy and with or
\* without compaction, LAST_HP equals HP and the remembered set is empty.
GenerationalBookkeeping ==
  pc = "done" => (last_hp = hp /\ remembered = <<>>)

\* A Young cycle that compacted and lowered HP has ended; when it started an
\* old field pointed into the young generation, so the remembered set held
\* an entry.
GenerationalBookkeepingWitness ==
  /\ pc = "done"
  /\ strategy = "Young"
  /\ compacting
  /\ hp < old_hp
  /\ \E o \in OldObjs0 : \E f \in PtrSlots(mem0, o) :
       YoungPtr(mem0[f], limits.last_free)

\* C14: note_reclaimed gets free before the cycle - free after the cycle, which
\* is not negative (the u32 subtraction does not wrap), and MAX_LIVE becomes
\* the maximum of its value before the cycle and free after the cycle - base;
\* neither statistic decreases.  RECLAIMED is 0 and MAX_LIVE is
\* last_free - base when the cycle starts.
Statistics ==
  pc \in {"returned", "done"} =>
    /\ hp <= old_hp
    /\ wraps = 0
    /\ reclaimed = old_hp - hp
    /\ reclaimed >= 0
    /\ max_live = Max(limits.last_free - heap_base, hp - heap_base)
    /\ max_live >= limits.last_free - heap_base

\* The same, for the cycles in which unthread dereferences no even tag.
StatisticsOddTags == ~wild => Statistics

\* Start of the collected generation: last_free for Young, base for Full.
GenerationStart ==
  IF strategy = "Young" THEN limits.last_free ELSE limits.base

\* C15: between cycles base <= LAST_HP <= HP, the limits of a cycle satisfy
\* base <= last_free <= free, and the free a cycle passes to set_hp lies
\* between the start of the collected generation and the free of before.
HeapAnchor ==
  /\ pc \in {"idle", "done"} => (heap_base <= last_hp /\ last_hp <= hp)
  /\ (limits.base <= limits.last_free /\ limits.last_free <= limits.free)
  /\ pc \in {"returned", "done"} => (GenerationStart <= hp /\ hp <= old_hp)

HeapAnchorOddTags == ~wild => HeapAnchor

\* C16: the mark bitmap and the mark stack are released whenever the cycle has
\* left mark_compact, by returning or by a failing assertion.
ResourcesReleased ==
  pc \in {"returned", "done", "trapped"} => ~allocated

\* The same, for the cycles that return.
ResourcesReleasedOnReturn ==
  pc \in {"returned", "done"} => ~allocated

\* C17: whenever the compactor reads the tag of an object (Pass A, the scan of
\* the old generation, Pass B after unthread) the word is the tag the object
\* had when the cycle started, and the tag Pass A reads is below
\* TAG_ARRAY_SLICE_MIN.
HeadersIntact ==
  /\ (pc = "thread_backward" /\ bits /= <<>>) =>
       /\ mem[Head(bits) * WORD_SIZE] = mem0[Head(bits) * WORD_SIZE]
       /\ mem[Head(bits) * WORD_SIZE] < TAG_ARRAY_SLICE_MIN
  /\ (pc = "old_generation" /\ p < limits.last_free) => mem[p] = mem0[p]
  /\ (pc = "unthread" /\ header % 2 = 1) => header = mem0[p]

\* The same, for the objects whose tag has low bit 1.
HeadersIntactOddTags ==
  /\ (pc = "thread_backward" /\ bits /= <<>>) =>
       /\ mem[Head(bits) * WORD_SIZE] = mem0[Head(bits) * WORD_SIZE]
       /\ mem[Head(bits) * WORD_SIZE] < TAG_ARRAY_SLICE_MIN
  /\ (pc = "old_generation" /\ p < limits.last_free) => mem[p] = mem0[p]
  /\ (pc = "unthread" /\ header % 2 = 1 /\ mem0[p] % 2 = 1) => header = mem0[p]

\* C18: in a Young cycle with compaction the scan of the old generation ends
\* before the first young object is unthreaded, and at the end of the cycle
\* every field of an object of [base, last_free) that pointed to a young
\* object holds the skewed new address of that object.
OldToYoungRewritten ==
  (strategy = "Young" /\ compacting) =>
    /\ pc = "old_generation" => moves = <<>>
    /\ pc = "returned" =>
         \A o \in OldObjs0 : \A f \in PtrSlots(mem0, o) :
           YoungPtr(mem0[f], limits.last_free) =>
             /\ NewAddr(get_ptr(mem0[f])) >= 0
             /\ mem[f] = from_ptr(NewAddr(get_ptr(mem0[f])))

\* The same, when no recorded field points to the first young object.
OldToYoungRewrittenSound == ~FirstYoungRecorded => OldToYoungRewritten

\* The addresses at which an object, a filler or a free-space block of
\* [a, end) starts in memory m, and end itself.
RECURSIVE BlockStarts(_, _, _)
BlockStarts(m, a, end) ==
  IF a >= end \/ a \notin DOMAIN m \/ object_size(m, a) <= 0 THEN {a}
  ELSE {a} \cup BlockStarts(m, a + object_size(m, a) * WORD_SIZE, end)

\* The one-word fillers and free-space blocks of the old generation.
OldFillers0 ==
  {a \in BlockStarts(mem0, heap_base, limits.last_free) :
     a < limits.last_free /\ mem0[a] \in Fillers}

\* The scan of the old generation has stopped the cycle at block a.
ScanStoppedAt(a) ==
  pc = "trapped" /\ strategy = "Young" /\ moves = <<>> /\ p = a

\* C19: the scan of [base, last_free) of a Young cycle steps from block to
\* block, changes no word of a one-word filler or free-space block, and does
\* not stop the cycle at one.
FillersIgnored ==
  (strategy = "Young" /\ compacting) =>
    /\ pc = "old_generation" =>
         p \in BlockStarts(mem0, heap_base, limits.last_free)
    /\ \A a \in OldFillers0 :
         /\ \A k \in 0..object_size(mem0, a) - 1 :
              mem[a + k * WORD_SIZE] = mem0[a + k * WORD_SIZE]
         /\ ~ScanStoppedAt(a)

\* The same, for one-word fillers only.
OneWordFillersIgnored ==
  (strategy = "Young" /\ compacting) =>
    /\ pc = "old_generation" =>
         p \in BlockStarts(mem0, heap_base, limits.last_free)
    /\ \A a \in OldFillers0 :
         mem0[a] = TAG_ONE_WORD_FILLER => (mem[a] = mem0[a] /\ ~ScanStoppedAt(a))

\* C20: when compaction runs move_phase returns generation start +
\* marked_space, the objects it placed lie one after the other from the
\* generation start to that address, and set_hp gets that address.
StrictCompaction ==
  compacting =>
    /\ \A i \in 1..Len(moves) :
         moves[i][2] = (IF i = 1 THEN GenerationStart
                        ELSE moves[i - 1][2]
                               + object_size(mem0, moves[i - 1][1]) * WORD_SIZE)
    /\ pc = "set_hp" => free = GenerationStart + marked_space
    /\ pc = "returned" => hp = GenerationStart + marked_space

StrictCompactionOddTags == ~wild => StrictCompaction

\* C22: when the collected generation is empty, generation_size and
\* marked_space are 0, compaction is not selected, and the cycle leaves free
\* and every word of memory as they were.
EmptyGeneration ==
  (pc \notin {"idle", "policy"} /\ limits.free = GenerationStart) =>
    /\ generation_size = 0
    /\ marked_space = 0
    /\ ~compacting
    /\ pc \notin {"thread_backward", "old_generation", "move", "unthread"}
    /\ mem = mem0
    /\ pc \in {"set_hp", "returned", "done"} => free = old_hp
    /\ pc \in {"returned", "done"} => hp = old_hp

\* A Young cycle over an empty young generation has returned, with a root
\* that points into the old generation.
EmptyGenerationWitness ==
  /\ pc = "returned"
  /\ strategy = "Young"
  /\ limits.free = limits.last_free
  /\ limits.last_free > limits.base
  /\ pointer_to_dynamic_heap(mem0, MutBoxField(static_root_box))

\* A Full cycle over an empty heap has returned.
EmptyHeapCollected ==
  pc = "returned" /\ strategy = "Full" /\ limits.free = limits.base

\* The entries pushed for the object at a, in the order of the pushes.
PushesOf(a) == SelectSeq(pushed, LAMBDA e : e[1] = a)

\* The first push of an object is the whole object with its tag; only an
\* array is pushed again, the k-th time as the suffix that starts at
\* (k - 1) * SLICE_INCREMENT, which lies below the length.
PushedInSlices ==
  \A a \in {pushed[i][1] : i \in DOMAIN pushed} :
    LET es == PushesOf(a)
    IN /\ es[1][2] = mem0[a]
       /\ \A k \in 2..Len(es) :
            /\ mem0[a] = TAG_ARRAY
            /\ es[k][2] = (k - 1) * SLICE_INCREMENT
            /\ es[k][2] < mem0[ArrayLenAddr(a)]

\* C21: on every heap, cyclic or not, the mark phase reaches the empty mark
\* stack; an object is pushed once as a whole, and an array longer than
\* SLICE_INCREMENT again only as the suffixes starting at SLICE_INCREMENT,
\* 2 * SLICE_INCREMENT, ... below its length.
MarkPhaseTerminates ==
  /\ []PushedInSlices
  /\ (pc = "mark_roots") ~> (pc = "mark_all" /\ mark_stack = <<>>)

\* The mark stack is empty after an array and a MutBox that point to each
\* other were marked, the array in three slices.
MarkPhaseTerminatesWitness ==
  /\ pc = "mark_all"
  /\ mark_stack = <<>>
  /\ \E i, j \in DOMAIN pushed :
       LET a == pushed[i][1]
           b == pushed[j][1]
       IN /\ pushed[i][2] = 2 * SLICE_INCREMENT
          /\ mem0[b] = TAG_MUTBOX
          /\ mem0[MutBoxField(b)] = from_ptr(a)
          /\ mem0[ArrayPayload(a, mem0[ArrayLenAddr(a)] - 1)] = from_ptr(b)

\* The mark stack is empty after a MutBox that points to itself was marked.
SelfPointerMarked ==
  /\ pc = "mark_all"
  /\ mark_stack = <<>>
  /\ \E i \in DOMAIN pushed :
       /\ pushed[i][2] = TAG_MUTBOX
       /\ mem0[MutBoxField(pushed[i][1])] = from_ptr(pushed[i][1])

====
